---- MODULE Spec2Model ----
(***************************************************************************)
(* Model of youtube_dl/extractor/tv2.py: the multi-protocol format         *)
(* resolution of TV2IE._real_extract (shared by KatsomoIE) and the         *)
(* playlist extraction of TV2ArticleIE._real_extract.                      *)
(*                                                                         *)
(* A url is a sequence of tokens: a word ([A-Za-z0-9]+) or one of the      *)
(* separators ".", "/", "?".  A python None in a string field is the       *)
(* string "None" (what '%s' prints for it); a missing or empty url is the  *)
(* empty sequence (both are falsy for `not video_url`).                    *)
(***************************************************************************)
EXTENDS Integers, Sequences, FiniteSets, TLC

\* ---------------------------------------------------------------- bounds
\* Longest item list one play.json response carries.
MaxItems == 2
\* Most sub-formats one manifest expansion returns.
MaxSub == 1
\* Longest article page, in embed elements.
MaxPage == 3

\* ------------------------------------------------------------ primitives
None == "None"
NoUrl == << >>
\* None in an integer field (bitrate, fileSize, tbr, filesize).
NoneInt == -1

InSeq(x, s) == \E i \in 1..Len(s) : s[i] = x

SeqsUpTo(S, n) == UNION {[1..k -> S] : k \in 0..n}

EndsWith(s, suffix) ==
    /\ Len(s) >= Len(suffix)
    /\ SubSeq(s, Len(s) - Len(suffix) + 1, Len(s)) = suffix

\* --------------------------------------------------- variant configuration
Variants == {"TV2IE", "KatsomoIE"}

\* _PROTOCOLS (KatsomoIE overrides the attribute of TV2IE).
PROTOCOLS(v) == IF v = "KatsomoIE" THEN <<"HLS", "MPD">> ELSE <<"HDS", "HLS", "DASH">>

\* Mutant: KatsomoIE does not override the country list.
GEO_COUNTRIES_Inherited(v) == <<"NO">>

\* _GEO_COUNTRIES
GEO_COUNTRIES(v) == IF v = "KatsomoIE" THEN <<"FI">> ELSE <<"NO">>

\* str.lower() on the protocol names in use.
Lower(p) ==
    CASE p = "HDS" -> "hds"
      [] p = "HLS" -> "hls"
      [] p = "DASH" -> "dash"
      [] p = "MPD" -> "mpd"
      [] OTHER -> p

\* ------------------------------------------------------------ utils (library)
KNOWN_EXTENSIONS == {"mp4", "flv", "webm", "f4m", "m3u8", "smil"}

IsWord(t) == t \notin {".", "/", "?"}

\* url.partition('?')[0]
RECURSIVE BeforeQuery(_)
BeforeQuery(url) ==
    IF url = << >> \/ Head(url) = "?" THEN << >>
    ELSE <<Head(url)>> \o BeforeQuery(Tail(url))

\* s.rpartition('.')[2]: what follows the last ".", the whole of s without one.
RECURSIVE AfterLastDot(_)
AfterLastDot(s) ==
    IF ~InSeq(".", s) THEN s
    ELSE AfterLastDot(Tail(s))

\* guess.rstrip('/')
RECURSIVE RStripSlash(_)
RStripSlash(s) ==
    IF s # << >> /\ s[Len(s)] = "/" THEN RStripSlash(SubSeq(s, 1, Len(s) - 1))
    ELSE s

\* determine_ext(url): the extension of the path, the query string ignored.
determine_ext(url) ==
    LET guess == AfterLastDot(BeforeQuery(url))
        bare == RStripSlash(guess)
    IN  IF Len(guess) = 1 /\ IsWord(guess[1]) THEN guess[1]
        ELSE IF Len(bare) = 1 /\ bare[1] \in KNOWN_EXTENSIONS THEN bare[1]
        ELSE "unknown_video"

\* int_or_none(v) on a JSON number or None.
int_or_none(v) == IF v = NoneInt THEN NoneInt ELSE v

\* _sort_formats: stable ranking, higher bitrate first, ties in first-seen order.
RECURSIVE InsertRanked(_, _)
InsertRanked(f, s) ==
    IF s = << >> THEN <<f>>
    ELSE IF Head(s).tbr >= f.tbr THEN <<Head(s)>> \o InsertRanked(f, Tail(s))
    ELSE <<f>> \o s

RECURSIVE sort_formats(_)
sort_formats(fs) ==
    IF fs = << >> THEN << >>
    ELSE InsertRanked(fs[Len(fs)], sort_formats(SubSeq(fs, 1, Len(fs) - 1)))

\* ------------------------------------------------------------ backend inputs
U_mp4 == <<"a", ".", "mp4">>
U_mp4q == <<"a", ".", "mp4", "?", "t", ".", "m3u8">>
U_m3u8 == <<"a", ".", "m3u8">>
U_f4m == <<"a", ".", "f4m">>
U_mpd == <<"a", ".", "mpd">>
U_ism == <<"a", ".", "ism">>
U_ismManifest == <<"a", ".", "ism", "/", "Manifest">>
U_Manifest == <<"a", "/", "Manifest">>

Item(u, mf, br, fs) ==
    [isDict |-> TRUE, url |-> u, mediaFormat |-> mf, bitrate |-> br, fileSize |-> fs]

\* A list entry that is no JSON object (a string, a number).
NonDict ==
    [isDict |-> FALSE, url |-> NoUrl, mediaFormat |-> None, bitrate |-> NoneInt,
     fileSize |-> NoneInt]

\* The JSON object {}.
EmptyDict == Item(NoUrl, None, NoneInt, NoneInt)

\* The candidate items one asset's play.json responses are drawn from.
PoolProgressive ==
    {Item(U_mp4, "mp4", 1500, 70), Item(U_mp4, None, NoneInt, NoneInt),
     Item(U_m3u8, "m3u8", NoneInt, NoneInt), Item(NoUrl, "mp4", 300, NoneInt)}

PoolManifest ==
    {Item(U_f4m, "f4m", NoneInt, NoneInt), Item(U_mpd, "mpd", NoneInt, NoneInt)}

PoolAdaptive ==
    {Item(U_m3u8, "m3u8", NoneInt, NoneInt), Item(U_mpd, "mpd", NoneInt, NoneInt)}

PoolSmooth ==
    {Item(U_ism, "ism", NoneInt, NoneInt), Item(U_ismManifest, "ism", NoneInt, NoneInt),
     Item(U_mp4, "mp4", 1500, 70)}

PoolLoose ==
    {NonDict, EmptyDict, Item(U_Manifest, "mp4", 300, NoneInt), Item(U_mp4q, "mp4", 300, 20)}

Pools == {PoolProgressive, PoolManifest, PoolAdaptive, PoolSmooth, PoolLoose}

\* playback.items.item of one response: absent, a single value, or a list.
RawItems(p) ==
    {[shape |-> "absent", list |-> << >>]}
    \cup {[shape |-> "single", list |-> <<i>>] : i \in p}
    \cup {[shape |-> "list", list |-> s] : s \in SeqsUpTo(p, MaxItems)}

GEO_CODE == "ASSET_PLAYBACK_INVALID_GEO_LOCATION"
AUTH_CODE == "SESSION_NOT_AUTHENTICATED"

\* The ways a play.json fetch fails: an HTTP status with the error body's code and
\* description, or no HTTP response at all (status "none").
Failures ==
    {[status |-> "401", code |-> c, description |-> d] :
        c \in {GEO_CODE, AUTH_CODE, "ASSET_NOT_PLAYABLE", None},
        d \in {"Not available", "Try later"}}
    \cup {[status |-> s, code |-> None, description |-> None] : s \in {"404", "none"}}

NoFailure == [status |-> "ok", code |-> None, description |-> None]

\* ------------------------------------------------------------------- state
VARIABLES
    variant,        \* the extractor class in use
    pool,           \* the items the backend may return for this asset
    pc,             \* position in TV2IE._real_extract
    pidx,           \* index of the current protocol in _PROTOCOLS
    data,           \* playback object of the latest successful probe
    items,          \* items of the current probe still to be examined
    formats,        \* accumulated format list
    format_urls,    \* urls accepted so far
    video_url,      \* local video_url: [bound, val]
    err,            \* the error the resolution ended with
    result,         \* the returned record
    fetched,        \* history: protocols whose play.json was requested
    metaFetched,    \* history: the metadata document was requested
    drmSeen,        \* history: some probe's playback had drmProtected set
    expanded,       \* history: the manifest expander calls: [url, via, drm]
    acceptedFrom,   \* history: (protocol, mediaFormat) of each accepted item
    failedUrls,     \* history: urls whose reachability check failed
    lastObj,        \* history: the latest object item examined and its probe
    cause,          \* history: the fetch failure that ended the resolution
    apc,            \* position in TV2ArticleIE._real_extract
    webpage,        \* the downloaded article page
    assets,         \* asset ids collected so far
    snippets,       \* TV2ContentboxVideo matches still to be parsed
    altScanned,     \* history: the new embed pattern was searched
    playlist        \* the returned playlist

assetVars ==
    <<variant, pool, pc, pidx, data, items, formats, format_urls, video_url, err,
      result, fetched, metaFetched, drmSeen, expanded, acceptedFrom, failedUrls,
      lastObj, cause>>

articleVars == <<apc, webpage, assets, snippets, altScanned, playlist>>

vars == <<assetVars, articleVars>>

VideoId == "916509"

NoError == [kind |-> "none", countries |-> << >>, message |-> ""]
NoResult == [id |-> "", url |-> NoUrl, title |-> "", formats |-> << >>]
NoObj == [seen |-> FALSE, url |-> NoUrl, protocol |-> ""]

\* -------------------------------------------------------- TV2IE._real_extract
Protocol == PROTOCOLS(variant)[pidx]

\* try_get(data, lambda x: x['items']['item']); if not items: continue;
\* if not isinstance(items, list): items = [items]
Normalise(raw) ==
    IF raw.shape = "absent" THEN << >>
    ELSE IF raw.shape = "single" /\ raw.list[1] = EmptyDict THEN << >>
    ELSE raw.list

\* except ExtractorError as e: ... (the error the handler raises)
HandleFetchError(f, v) ==
    IF f.status = "401" THEN
        IF f.code = GEO_CODE THEN
            [kind |-> "GeoRestricted", countries |-> GEO_COUNTRIES(v), message |-> ""]
        ELSE IF f.code = AUTH_CODE THEN
            [kind |-> "LoginRequired", countries |-> << >>, message |-> ""]
        ELSE [kind |-> "ExtractorError", countries |-> << >>, message |-> f.description]
    ELSE [kind |-> "FetchError", countries |-> << >>, message |-> f.status]

\* Mutant: the membership test in format_urls is dropped.
ItemSkipped_NoDedup(url, seen) == url = NoUrl

\* if not video_url or video_url in format_urls: continue
ItemSkipped(url, seen) == url = NoUrl \/ InSeq(url, seen)

\* Mutant: the protocol is not lowercased.
format_id_NoLower(protocol, item) == protocol \o "-" \o item.mediaFormat

\* format_id = '%s-%s' % (protocol.lower(), item.get('mediaFormat'))
format_id(protocol, item) == Lower(protocol) \o "-" \o item.mediaFormat

\* Mutant: only the extension is tested.
IsSmooth_ExtOnly(ext, url) == ext = "ism"

\* elif ext == 'ism' or video_url.endswith('.ism/Manifest'): pass
IsSmooth(ext, url) == ext = "ism" \/ EndsWith(url, <<".", "ism", "/", "Manifest">>)

\* Mutant: the DRM test is dropped.
HlsAllowed_Always(d) == TRUE

\* if not data.get('drmProtected'):
HlsAllowed(d) == ~d.drmProtected

\* The manifest expander an accepted url is handed to ("none": no expander).
Expander(url, d) ==
    LET ext == determine_ext(url)
    IN  IF ext = "f4m" THEN "f4m"
        ELSE IF ext = "m3u8" THEN (IF HlsAllowed(d) THEN "m3u8" ELSE "none")
        ELSE IF ext = "mpd" THEN "mpd"
        ELSE "none"

\* A sub-format's id: the manifest id joined with the sub-stream's name.
SubId(fid, i) == fid \o "-" \o ToString(i)

\* _extract_f4m_formats / _extract_m3u8_formats / _extract_mpd_formats with
\* fatal=False: n sub-formats (none when the expansion fails).
Expand(via, url, fid, n) ==
    [i \in 1..n |->
        [url |-> url, format_id |-> SubId(fid, i), tbr |-> 100 * i,
         filesize |-> NoneInt, via |-> via]]

\* The formats one accepted item adds (the if/elif chain on ext).
NewFormats(protocol, item, d, n) ==
    LET url == item.url
        ext == determine_ext(url)
        fid == format_id(protocol, item)
    IN  IF Expander(url, d) # "none" THEN Expand(Expander(url, d), url, fid, n)
        ELSE IF ext = "m3u8" THEN << >>
        ELSE IF IsSmooth(ext, url) THEN << >>
        ELSE <<[url |-> url, format_id |-> fid, tbr |-> int_or_none(item.bitrate),
                filesize |-> int_or_none(item.fileSize), via |-> "direct"]>>

\* Mutant: video_url keeps the first object item's url.
AssignVideoUrl_First(old, item) ==
    IF old.bound THEN old ELSE [bound |-> TRUE, val |-> item.url]

\* video_url = item.get('url')
AssignVideoUrl(old, item) == [bound |-> TRUE, val |-> item.url]

\* Mutant: the emptiness test is dropped.
DrmBlocked_FlagOnly(fs, d) == d.drmProtected

\* if not formats and data.get('drmProtected'):
DrmBlocked(fs, d) == fs = << >> /\ d.drmProtected

\* The end of one probe's body: the for loop moves to the next protocol.
Advance ==
    /\ pidx' = pidx + 1
    /\ pc' = IF pidx = Len(PROTOCOLS(variant)) THEN "post" ELSE "probe"

\* data = self._download_json(.../play.json?protocol=...)['playback'] succeeds.
FetchPlayOk ==
    /\ pc = "probe"
    /\ \E drm \in BOOLEAN, raw \in RawItems(pool) :
        /\ data' = [drmProtected |-> drm]
        /\ drmSeen' = (drmSeen \/ drm)
        /\ items' = Normalise(raw)
        /\ IF Normalise(raw) = << >> THEN Advance
           ELSE pc' = "items" /\ pidx' = pidx
    /\ fetched' = Append(fetched, Protocol)
    /\ UNCHANGED <<variant, pool, formats, format_urls, video_url, err, result,
                   metaFetched, expanded, acceptedFrom, failedUrls, lastObj, cause>>
    /\ UNCHANGED articleVars

\* Mutant: a failed fetch is swallowed and the loop goes on to the next protocol.
FetchPlayFail_Continue ==
    /\ pc = "probe"
    /\ \E f \in Failures : cause' = f
    /\ Advance
    /\ fetched' = Append(fetched, Protocol)
    /\ UNCHANGED <<variant, pool, data, items, formats, format_urls, video_url, err,
                   result, metaFetched, drmSeen, expanded, acceptedFrom, failedUrls,
                   lastObj>>
    /\ UNCHANGED articleVars

\* The play.json fetch raises ExtractorError.
FetchPlayFail ==
    /\ pc = "probe"
    /\ \E f \in Failures :
        /\ err' = HandleFetchError(f, variant)
        /\ cause' = f
    /\ pc' = "failed"
    /\ fetched' = Append(fetched, Protocol)
    /\ UNCHANGED <<variant, pool, pidx, data, items, formats, format_urls, video_url,
                   result, metaFetched, drmSeen, expanded, acceptedFrom, failedUrls,
                   lastObj>>
    /\ UNCHANGED articleVars

\* One iteration of `for item in items`.
ProcessItem ==
    /\ pc = "items"
    /\ items # << >>
    /\ LET item == Head(items) IN
        /\ items' = Tail(items)
        /\ IF Tail(items) = << >> THEN Advance ELSE pc' = pc /\ pidx' = pidx
        /\ IF ~item.isDict THEN
                UNCHANGED <<video_url, lastObj, format_urls, formats, expanded,
                            acceptedFrom, failedUrls>>
           ELSE
                /\ video_url' = AssignVideoUrl(video_url, item)
                /\ lastObj' = [seen |-> TRUE, url |-> item.url, protocol |-> Protocol]
                /\ IF ItemSkipped(item.url, format_urls) THEN
                        UNCHANGED <<format_urls, formats, expanded, acceptedFrom,
                                    failedUrls>>
                   ELSE \E reachable \in BOOLEAN :
                        IF ~reachable THEN
                            /\ failedUrls' = failedUrls \cup {item.url}
                            /\ UNCHANGED <<format_urls, formats, expanded, acceptedFrom>>
                        ELSE \E n \in 0..MaxSub :
                            /\ format_urls' = Append(format_urls, item.url)
                            /\ acceptedFrom' =
                                 Append(acceptedFrom,
                                        [protocol |-> Protocol,
                                         mediaFormat |-> item.mediaFormat])
                            /\ formats' = formats \o NewFormats(Protocol, item, data, n)
                            /\ expanded' =
                                 IF Expander(item.url, data) # "none"
                                 THEN Append(expanded,
                                             [url |-> item.url,
                                              via |-> Expander(item.url, data),
                                              drm |-> data.drmProtected])
                                 ELSE expanded
                            /\ UNCHANGED failedUrls
    /\ UNCHANGED <<variant, pool, data, err, result, fetched, metaFetched, drmSeen,
                   cause>>
    /\ UNCHANGED articleVars

\* if not formats and data.get('drmProtected'): raise ...; self._sort_formats(formats)
PostLoop ==
    /\ pc = "post"
    /\ IF DrmBlocked(formats, data) THEN
            /\ pc' = "failed"
            /\ err' = [kind |-> "DrmProtected", countries |-> << >>,
                       message |-> "This video is DRM protected."]
            /\ UNCHANGED formats
       ELSE /\ pc' = "meta"
            /\ formats' = sort_formats(formats)
            /\ UNCHANGED err
    /\ UNCHANGED <<variant, pool, pidx, data, items, format_urls, video_url, result,
                   fetched, metaFetched, drmSeen, expanded, acceptedFrom, failedUrls,
                   lastObj, cause>>
    /\ UNCHANGED articleVars

\* asset = self._download_json(api_base + '.json', ...)['asset'];
\* title = asset['title']; ...; return {...}
\* The document may fail to arrive, lack a title, or hold a null or non-object where
\* a method is called on it (keywords, an imageVersions entry).
FetchMeta ==
    /\ pc = "meta"
    /\ metaFetched' = TRUE
    /\ \E outcome \in {"ok", "fetch_failed", "no_title", "ill_typed"} :
        IF outcome = "fetch_failed" THEN
            /\ pc' = "failed"
            /\ err' = [kind |-> "MetaFetchError", countries |-> << >>, message |-> ""]
            /\ UNCHANGED result
        ELSE IF outcome = "ill_typed" THEN
            /\ pc' = "failed"
            /\ err' = [kind |-> "AttributeError", countries |-> << >>, message |-> ""]
            /\ UNCHANGED result
        ELSE IF outcome = "no_title" THEN
            /\ pc' = "failed"
            /\ err' = [kind |-> "KeyError", countries |-> << >>, message |-> "title"]
            /\ UNCHANGED result
        ELSE IF ~video_url.bound THEN
            /\ pc' = "failed"
            /\ err' = [kind |-> "NameError", countries |-> << >>, message |-> "video_url"]
            /\ UNCHANGED result
        ELSE
            /\ pc' = "returned"
            /\ result' = [id |-> VideoId, url |-> video_url.val, title |-> "title",
                          formats |-> formats]
            /\ UNCHANGED err
    /\ UNCHANGED <<variant, pool, pidx, data, items, formats, format_urls, video_url,
                   fetched, drmSeen, expanded, acceptedFrom, failedUrls, lastObj, cause>>
    /\ UNCHANGED articleVars

\* ------------------------------------------------ TV2ArticleIE._real_extract
\* What the two embed patterns can meet in a page, in document order:
\* a data-assetid="<digits>" attribute, or a TV2ContentboxVideo({...}) call whose
\* argument is malformed, is {}, lacks assetId, or carries one.
Legacy(id) == [kind |-> "legacy", body |-> "", id |-> id]
Snippet(body, id) == [kind |-> "snippet", body |-> body, id |-> id]

Elements ==
    {Legacy("916509"), Legacy("916510"),
     Snippet("malformed", ""), Snippet("empty", ""), Snippet("other", ""),
     Snippet("asset", "916509"), Snippet("asset", "916511")}

SITE_SUFFIX == " - TV2.no"

\* An og: property's content, as the text and its suffix; << >> when absent.
OgValues == {<< >>, <<"Tittel">>, <<"Tittel", SITE_SUFFIX>>}

Pages ==
    {[body |-> b, ogTitle |-> t, ogDescription |-> d] :
        b \in SeqsUpTo(Elements, MaxPage), t \in OgValues,
        d \in {<< >>, <<"Tittel", SITE_SUFFIX>>}}

NoPage == [body |-> << >>, ogTitle |-> << >>, ogDescription |-> << >>]
NoPlaylist == [id |-> "", title |-> << >>, description |-> << >>, entries |-> << >>]

PlaylistId == "6930542"

RECURSIVE FindAll(_, _)
\* re.findall over the page: the matches of one pattern in document order.
FindAll(kind, body) ==
    IF body = << >> THEN << >>
    ELSE (IF Head(body).kind = kind THEN <<Head(body)>> ELSE << >>)
         \o FindAll(kind, Tail(body))

\* re.findall(r'data-assetid=["\'](\d+)', webpage): the captured ids.
LegacyAssets(body) ==
    LET ms == FindAll("legacy", body) IN [i \in 1..Len(ms) |-> ms[i].id]

\* self._parse_json(v, playlist_id, transform_source=js_to_json, fatal=False):
\* None ("none") for a malformed argument, else the object.
ParseSnippet(sn) ==
    IF sn.body = "malformed" THEN [parsed |-> FALSE, keys |-> FALSE, assetId |-> ""]
    ELSE IF sn.body = "empty" THEN [parsed |-> TRUE, keys |-> FALSE, assetId |-> ""]
    ELSE [parsed |-> TRUE, keys |-> TRUE, assetId |-> sn.id]

\* The body of `for v in re.findall(...)`: the assets list after snippet sn.
AfterSnippet(as, sn) ==
    LET video == ParseSnippet(sn)
    IN  IF ~video.parsed \/ ~video.keys THEN as
        ELSE IF video.assetId = "" THEN as
        ELSE Append(as, video.assetId)

\* self.url_result('http://www.tv2.no/v/%s' % asset_id, 'TV2')
url_result(id) == [type |-> "url", url |-> "http://www.tv2.no/v/" \o id, ie_key |-> "TV2"]

\* self._og_search_title(webpage) / self._og_search_description(webpage): the
\* property's content, << >> (None) when the page has none.
og_search_property(prop, page) == IF prop = "title" THEN page.ogTitle ELSE page.ogDescription

\* remove_end(s, end)
remove_end(s, end) ==
    IF s # << >> /\ EndsWith(s, <<end>>) THEN SubSeq(s, 1, Len(s) - 1) ELSE s

\* webpage = self._download_webpage(url, playlist_id, website=website)
DownloadWebpage ==
    /\ apc = "start"
    /\ \/ \E page \in Pages : webpage' = page /\ apc' = "legacy"
       \/ webpage' = webpage /\ apc' = "failed"
    /\ UNCHANGED <<assets, snippets, altScanned, playlist>>
    /\ UNCHANGED assetVars

\* Mutant: the new embed pattern is searched whatever the legacy pattern found.
ScanLegacy_Always ==
    /\ apc = "legacy"
    /\ assets' = LegacyAssets(webpage.body)
    /\ snippets' = FindAll("snippet", webpage.body)
    /\ altScanned' = (LegacyAssets(webpage.body) = << >>)
    /\ apc' = IF FindAll("snippet", webpage.body) = << >> THEN "build" ELSE "scan"
    /\ UNCHANGED <<webpage, playlist>>
    /\ UNCHANGED assetVars

\* assets = re.findall(...); if not assets: (the new embed pattern is searched)
ScanLegacy ==
    /\ apc = "legacy"
    /\ assets' = LegacyAssets(webpage.body)
    /\ IF LegacyAssets(webpage.body) = << >> THEN
            /\ snippets' = FindAll("snippet", webpage.body)
            /\ altScanned' = TRUE
            /\ apc' = IF FindAll("snippet", webpage.body) = << >> THEN "build" ELSE "scan"
       ELSE /\ apc' = "build"
            /\ UNCHANGED <<snippets, altScanned>>
    /\ UNCHANGED <<webpage, playlist>>
    /\ UNCHANGED assetVars

\* One iteration of `for v in re.findall(r'(?s)TV2ContentboxVideo\(({.+?})\)', webpage)`.
ScanSnippet ==
    /\ apc = "scan"
    /\ snippets # << >>
    /\ assets' = AfterSnippet(assets, Head(snippets))
    /\ snippets' = Tail(snippets)
    /\ apc' = IF Tail(snippets) = << >> THEN "build" ELSE "scan"
    /\ UNCHANGED <<webpage, altScanned, playlist>>
    /\ UNCHANGED assetVars

\* entries = [...]; title = ...; description = ...; return self.playlist_result(...)
BuildPlaylist ==
    /\ apc = "build"
    /\ playlist' =
        [id |-> PlaylistId,
         title |-> remove_end(og_search_property("title", webpage), SITE_SUFFIX),
         description |->
            remove_end(og_search_property("description", webpage), SITE_SUFFIX),
         entries |-> [i \in 1..Len(assets) |-> url_result(assets[i])]]
    /\ apc' = "done"
    /\ UNCHANGED <<webpage, assets, snippets, altScanned>>
    /\ UNCHANGED assetVars

\* ------------------------------------------------------------ specifications
ArticleIdle ==
    /\ webpage = NoPage
    /\ assets = << >>
    /\ snippets = << >>
    /\ altScanned = FALSE
    /\ playlist = NoPlaylist

AssetIdle ==
    /\ data = [drmProtected |-> FALSE]
    /\ items = << >>
    /\ formats = << >>
    /\ format_urls = << >>
    /\ video_url = [bound |-> FALSE, val |-> NoUrl]
    /\ err = NoError
    /\ result = NoResult
    /\ fetched = << >>
    /\ metaFetched = FALSE
    /\ drmSeen = FALSE
    /\ expanded = << >>
    /\ acceptedFrom = << >>
    /\ failedUrls = {}
    /\ lastObj = NoObj
    /\ cause = NoFailure

\* A resolution of one asset by TV2IE or KatsomoIE.
Init ==
    /\ variant \in Variants
    /\ pool \in Pools
    /\ pc = "probe"
    /\ pidx = 1
    /\ AssetIdle
    /\ apc = "idle"
    /\ ArticleIdle

Next == FetchPlayOk \/ FetchPlayFail \/ ProcessItem \/ PostLoop \/ FetchMeta

Spec == Init /\ [][Next]_vars

\* An extraction of one article page by TV2ArticleIE.
ArticleInit ==
    /\ variant = "TV2IE"
    /\ pool = {}
    /\ pc = "idle"
    /\ pidx = 1
    /\ AssetIdle
    /\ apc = "start"
    /\ ArticleIdle

ArticleNext == DownloadWebpage \/ ScanLegacy \/ ScanSnippet \/ BuildPlaylist

ArticleSpec == ArticleInit /\ [][ArticleNext]_vars

\* ------------------------------------------------------------------ claims
Range(s) == {s[i] : i \in 1..Len(s)}
NoDup(s) == \A i, j \in 1..Len(s) : s[i] = s[j] => i = j
Direct(fs, u) == {i \in 1..Len(fs) : fs[i].url = u /\ fs[i].via = "direct"}
ManifestExts == {"f4m", "m3u8", "mpd"}
\* The format lists a caller can observe: the accumulator and the returned one.
Lists == {formats, result.formats}

\* C1: a DRM-protected asset never gets past the probe loop with an empty format
\* list: if some probe's playback had drmProtected set and no format was
\* accumulated, the resolution ends with the DRM error, without a metadata fetch
\* and without a returned record.
C1_DrmNeverEmptySuccess ==
    (drmSeen /\ formats = << >> /\ Len(fetched) = Len(PROTOCOLS(variant))
        /\ cause = NoFailure /\ pc \notin {"probe", "items", "post"})
    => (pc = "failed" /\ err.kind = "DrmProtected" /\ ~metaFetched)

\* C2: deduplication by exact url: no url is accepted twice, no url is handed to a
\* manifest expander twice, an accepted progressive url has exactly one record and
\* no list holds two progressive records with one url.
C2_Dedup ==
    /\ NoDup(format_urls)
    /\ NoDup([i \in 1..Len(expanded) |-> expanded[i].url])
    /\ \A fs \in Lists : \A i \in 1..Len(fs) : Cardinality(Direct(fs, fs[i].url)) <= 1
    /\ \A u \in Range(format_urls) :
        (determine_ext(u) \notin ManifestExts /\ ~IsSmooth(determine_ext(u), u))
        => Cardinality(Direct(formats, u)) = 1

\* C2 witness: the latest object item repeats a url accepted under an earlier
\* protocol, and the url still has its single record.
C2_Witness ==
    /\ pc = "returned"
    /\ lastObj.seen
    /\ \E i \in 1..Len(format_urls) :
        /\ format_urls[i] = lastObj.url
        /\ acceptedFrom[i].protocol # lastObj.protocol
        /\ Cardinality(Direct(result.formats, lastObj.url)) = 1

\* C3: an HTTP 401 on a play.json probe ends the resolution with exactly one error:
\* geo-restricted with the variant's country list for the geo code, login-required
\* for the session code, and ExtractorError(error.description) for any other code.
C3_Classify401 ==
    cause.status = "401" =>
        /\ pc = "failed"
        /\ err =
            IF cause.code = "ASSET_PLAYBACK_INVALID_GEO_LOCATION" THEN
                [kind |-> "GeoRestricted",
                 countries |-> IF variant = "TV2IE" THEN <<"NO">> ELSE <<"FI">>,
                 message |-> ""]
            ELSE IF cause.code = "SESSION_NOT_AUTHENTICATED" THEN
                [kind |-> "LoginRequired", countries |-> << >>, message |-> ""]
            ELSE [kind |-> "ExtractorError", countries |-> << >>,
                  message |-> cause.description]

\* C3 witness: KatsomoIE meets the geo code at its second probe.
C3_Witness ==
    /\ variant = "KatsomoIE"
    /\ pidx = 2
    /\ cause.status = "401"
    /\ cause.code = GEO_CODE
    /\ err.countries = <<"FI">>

\* The errors of a play.json fetch and of a metadata document that did not arrive
\* or that no record can be built from.
FetchErrorKinds ==
    {"GeoRestricted", "LoginRequired", "ExtractorError", "FetchError",
     "MetaFetchError", "KeyError", "AttributeError"}

\* What C4 promises for an accepted url u: it keeps a record in every list, and
\* only a failed fetch can end the resolution in failure.
Kept(u) ==
    /\ \A fs \in (IF pc = "returned" THEN Lists ELSE {formats}) :
        \E i \in 1..Len(fs) : fs[i].url = u
    /\ pc = "failed" => err.kind \in FetchErrorKinds

\* C4 as stated: every url that passed the reachability check and whose extension
\* is none of f4m, m3u8, mpd, ism keeps a record in the format list, and the
\* resolution returns it unless a fetch failed.
C4_Original ==
    \A u \in Range(format_urls) :
        determine_ext(u) \notin {"f4m", "m3u8", "mpd", "ism"} => Kept(u)

\* C4 amended: the same, for the urls that moreover do not end in .ism/Manifest.
C4_ProgressiveKept ==
    \A u \in Range(format_urls) :
        (determine_ext(u) \notin {"f4m", "m3u8", "mpd", "ism"}
            /\ ~EndsWith(u, <<".", "ism", "/", "Manifest">>))
        => Kept(u)

\* C4 witness: a record is returned for a progressive url although the last probe
\* is flagged DRM, an m3u8 candidate was skipped for it and a check had failed.
C4_Witness ==
    /\ pc = "returned"
    /\ data.drmProtected
    /\ failedUrls # {}
    /\ InSeq(U_m3u8, format_urls)
    /\ \A i \in 1..Len(expanded) : expanded[i].url # U_m3u8
    /\ Direct(result.formats, U_mp4) # {}

RECURSIVE Pick(_, _)
\* The elements of s, in order, that are in S.
Pick(s, S) ==
    IF s = << >> THEN << >>
    ELSE (IF Head(s) \in S THEN <<Head(s)>> ELSE << >>) \o Pick(Tail(s), S)

LegacyIn(body) == Pick(body, {e \in Elements : e.kind = "legacy"})
UsableIn(body) == Pick(body, {e \in Elements : e.kind = "snippet" /\ e.body = "asset"})

\* C5: the playlist entries are the legacy data-assetid matches in document order,
\* duplicates kept, the new pattern not being searched, when there is at least one;
\* otherwise the assetId values of the TV2ContentboxVideo snippets in document
\* order, unparsable and assetId-less snippets skipped; a page without any asset
\* gives an empty playlist and no error.
C5_Entries ==
    /\ apc = "done" =>
        LET src == IF LegacyIn(webpage.body) # << >> THEN LegacyIn(webpage.body)
                   ELSE UsableIn(webpage.body)
        IN  /\ Len(playlist.entries) = Len(src)
            /\ \A i \in 1..Len(src) :
                playlist.entries[i].url = "http://www.tv2.no/v/" \o src[i].id
            /\ altScanned <=> (LegacyIn(webpage.body) = << >>)
    /\ apc = "failed" => webpage = NoPage

\* C5 witness: a malformed snippet precedes a usable one, which is still extracted.
C5_Witness ==
    /\ apc = "done"
    /\ altScanned
    /\ Len(webpage.body) >= 2
    /\ webpage.body[1] = Snippet("malformed", "")
    /\ Len(playlist.entries) >= 1

C6_Terminal ==
    cause # NoFailure =>
        /\ pc = "failed"
        /\ ~metaFetched
        /\ result = NoResult
        /\ Len(fetched) = pidx
        /\ fetched = SubSeq(PROTOCOLS(variant), 1, pidx)

\* C6: a failed play.json fetch is terminal: the resolution is in failure at that
\* probe, the protocols requested are the first k of the list, each once, no
\* metadata fetch was made, no record is returned, and nothing happens afterwards.
C6_FailedFetchTerminal == []C6_Terminal /\ [][pc # "failed"]_vars

\* C6 witness: the fetch fails at a later probe, formats being already accumulated.
C6_Witness ==
    /\ cause # NoFailure
    /\ pidx >= 2
    /\ formats # << >>

C8_Gate ==
    /\ \A i \in 1..Len(expanded) : expanded[i].via = "m3u8" => ~expanded[i].drm
    /\ \A fs \in Lists : \A i \in 1..Len(fs) :
        fs[i].via = "m3u8" =>
            \E j \in 1..Len(expanded) :
                expanded[j].url = fs[i].url /\ expanded[j].via = "m3u8"

C8_Skip ==
    (pc = "items" /\ Head(items).isDict /\ determine_ext(Head(items).url) = "m3u8"
        /\ data.drmProtected)
    => (formats' = formats /\ expanded' = expanded /\ pc' # "failed" /\ err' = err)

ExpectedId(a) == Lower(a.protocol) \o "-" \o a.mediaFormat

C9_Ids ==
    /\ Len(acceptedFrom) = Len(format_urls)
    /\ \A fs \in Lists : \A i \in 1..Len(fs) :
        \E j \in 1..Len(format_urls) :
            /\ format_urls[j] = fs[i].url
            /\ fs[i].format_id \in
                {ExpectedId(acceptedFrom[j])}
                \cup {SubId(ExpectedId(acceptedFrom[j]), k) : k \in 1..MaxSub}

C9_Step ==
    (pc = "items" /\ Head(items).isDict /\ Head(items).url # NoUrl) =>
        LET u == Head(items).url
            from == [protocol |-> PROTOCOLS(variant)[pidx],
                     mediaFormat |-> Head(items).mediaFormat]
        IN  IF InSeq(u, format_urls)
            THEN formats' = formats /\ format_urls' = format_urls
                 /\ acceptedFrom' = acceptedFrom /\ failedUrls' = failedUrls
            ELSE \/ /\ format_urls' = Append(format_urls, u)
                    /\ acceptedFrom' = Append(acceptedFrom, from)
                    /\ SubSeq(formats', 1, Len(formats)) = formats
                    /\ failedUrls' = failedUrls
                 \/ /\ format_urls' = format_urls
                    /\ acceptedFrom' = acceptedFrom
                    /\ formats' = formats
                    /\ failedUrls' = failedUrls \cup {u}

\* C9: a url is marked seen only when its reachability check passes, so an item
\* whose url is not yet seen is checked whether or not the url failed before; every
\* record's format id is '<protocol lowercased>-<mediaFormat>' of the item that was
\* accepted for its url, and later items with that url change nothing.
C9_Attribution == []C9_Ids /\ [][C9_Step]_vars

\* C9 witness: a url failed its check, passed it under a later protocol, and its
\* record carries that later protocol's id.
C9_Witness ==
    /\ pc = "returned"
    /\ variant = "TV2IE"
    /\ U_mp4 \in failedUrls
    /\ \E i \in 1..Len(result.formats) :
        result.formats[i].url = U_mp4 /\ result.formats[i].format_id = "dash-mp4"

\* C10: a record is returned only after some object item was examined, and its
\* top-level url is the url field of the latest object item examined.
C10_TopLevelUrl ==
    pc = "returned" => (lastObj.seen /\ result.url = lastObj.url)

\* C10 witness: the returned top-level url is the url of no entry of the
\* non-empty format list.
C10_Witness ==
    /\ pc = "returned"
    /\ result.formats # << >>
    /\ \A i \in 1..Len(result.formats) : result.formats[i].url # result.url

====
